---- MODULE Spec2Model ----
(***************************************************************************)
(* Model of the RunPod worker glue of No-Safe-Word (infra/runpod):         *)
(*   handler_wrapper.py  download_character_loras,                         *)
(*                       refresh_comfyui_model_cache, wrapped_handler      *)
(*   patch_handler.py    _nsw_patched_start (the start-function shim)      *)
(* Several worker processes share one loras directory.  Every system call  *)
(* that touches the shared directory is one atomic step of a worker.       *)
(***************************************************************************)
EXTENDS Integers, Sequences, FiniteSets

(* ---------------------------- bounds ----------------------------------- *)
\* number of worker processes sharing the loras directory
NumWorkers == 2
\* number of chunks shutil.copyfileobj needs to copy one asset
NumChunks == 2
\* longest character_lora_downloads list of a job
MaxList == 2
\* jobs the job queue delivers to the workers altogether
MaxJobs == 2

Workers == 1..NumWorkers

(* ---------------------------- job inputs ------------------------------- *)
Filenames == {"a", "b"}
GoodUrl == "u"

\* entry.get("filename", "") / entry.get("url", ""): a missing field reads ""
Entries ==
    {[filename |-> f, url |-> GoodUrl] : f \in Filenames}
        \cup {[filename |-> "", url |-> GoodUrl], [filename |-> "a", url |-> ""]}

RECURSIVE ListsOfLen(_)
ListsOfLen(n) ==
    IF n = 0 THEN {<< >>}
    ELSE {Append(l, e) : l \in ListsOfLen(n - 1), e \in Entries}

Lists == UNION {ListsOfLen(n) : n \in 0..MaxList}

DownloadsKey == "character_lora_downloads"
Keys == {DownloadsKey, "prompt"}

\* A job input mapping: the set of keys present and the value of each key
\* (a key that is absent carries the neutral value).
JobInputs ==
    {[keys |-> ks,
      character_lora_downloads |-> l,
      prompt |-> IF "prompt" \in ks THEN "x" ELSE ""] :
        ks \in SUBSET Keys, l \in Lists}

ValidInput(inp) == DownloadsKey \notin inp.keys => inp.character_lora_downloads = << >>

Jobs == {inp \in JobInputs : ValidInput(inp)}

\* the jobs submitted while several workers share the directory: one file,
\* two files, an empty list, and a job without the key
NoRepeat(l) == \A i, k \in 1..Len(l) : l[i] = l[k] => i = k
SharedLists ==
    {<< >>,
     <<[filename |-> "a", url |-> GoodUrl]>>,
     <<[filename |-> "a", url |-> GoodUrl], [filename |-> "b", url |-> GoodUrl]>>}
SharedJobs ==
    {inp \in Jobs :
        /\ "prompt" \in inp.keys
        /\ inp.character_lora_downloads \in SharedLists
        /\ NoRepeat(inp.character_lora_downloads)}

(* ---------------------------- the shared directory --------------------- *)
\* inode numbers; 0 stands for "no such file"
NumInodes == Cardinality(Filenames) + NumWorkers
Inodes == 1..NumInodes

\* the bytes the storage server serves for a url, one byte per chunk
Body(url) == [i \in 1..NumChunks |-> i]

\* write(2) of one byte at a file offset: a gap left by a truncation reads 0
WriteAt(content, off, byte) ==
    [i \in 1..(IF off + 1 > Len(content) THEN off + 1 ELSE Len(content)) |->
        IF i = off + 1 THEN byte
        ELSE IF i <= Len(content) THEN content[i]
        ELSE 0]

(* ---------------------------- handlers and configurations -------------- *)
NoHandler == [kind |-> "none", fn |-> ""]
PlainHandler(fn) == [kind |-> "plain", fn |-> fn]
\* the closure _nsw_wrapped / wrapped_handler bound to an original handler
WrappedHandler(fn) == [kind |-> "wrapped", fn |-> fn]

\* config.get("handler"): None when the key is absent
ConfigGetHandler(config) ==
    IF "handler" \in config.keys THEN config.handler ELSE NoHandler

\* configurations the vendor code passes to runpod.serverless.start
Configs ==
    {[keys |-> {"return_aggregate_stream"}, handler |-> NoHandler,
      return_aggregate_stream |-> TRUE],
     [keys |-> {"handler", "return_aggregate_stream"}, handler |-> NoHandler,
      return_aggregate_stream |-> TRUE],
     [keys |-> {"handler", "return_aggregate_stream"}, handler |-> PlainHandler("handler"),
      return_aggregate_stream |-> TRUE],
     [keys |-> {"handler"}, handler |-> PlainHandler("handler"),
      return_aggregate_stream |-> FALSE]}

\* results the original handler may return
Results == {"images", "error"}

(* ---------------------------- state ------------------------------------ *)
VARIABLES
    dest,       \* dest[f]: inode linked at <loras>/<f>, 0 if none
    tmp,        \* tmp[f]: inode linked at <loras>/<f>.tmp, 0 if none
    data,       \* data[n]: bytes of inode n
    pc,         \* pc[w]: position of worker process w
    given,      \* given[w]: configuration the vendor code passed to start
    started,    \* started[w]: configurations the vendor start function received
    pool,       \* the jobs clients submit to the job queue
    delivered,  \* number of jobs the job queue has delivered
    job,        \* job[w]: input mapping of the job as delivered
    input,      \* input[w]: the job's input mapping as it is now (mutated in place)
    downloads,  \* downloads[w]: the popped character_lora_downloads list
    idx,        \* idx[w]: position in downloads of the entry being processed
    fd,         \* fd[w]: inode of the open temporary file, 0 if none
    off,        \* off[w]: file offset of fd[w]
    cause,      \* cause[w]: exception caught by the except clause
    err,        \* err[w]: exception that left wrapped_handler
    trace,      \* trace[w]: side effects of the current job, in order
    handled,    \* handled[w]: calls of the original handler in the current job
    result,     \* result[w]: value wrapped_handler returned
    request,    \* request[w]: the POST worker w is waiting on, as the endpoint has it
    backlog,    \* requests their sender gave up on that the endpoint has yet to serve
    cache,      \* folder_paths.filename_list_cache of the ComfyUI process
    found,      \* what the last refresh request found in the cache
    response,   \* the last response of POST /api/nsw/refresh-models
    files,      \* statements of /handler_original.py and of /handler.py
    interp,     \* the Python process executing /handler.py
    civ,        \* the process running download-civitai-loras.py
    ins,        \* the process running download-insightface.py
    trial,      \* a job and the environment it is run in, once by each implementation
    outcome     \* what each implementation did with the trial

\* the state of the worker processes and their shared loras directory
workerVars == <<dest, tmp, data, pc, given, started, pool, delivered, job, input,
                downloads, idx, fd, off, cause, err, trace, handled, result,
                request, backlog>>
\* the state of the ComfyUI process the refresh endpoint runs in
endpointVars == <<cache, found, response>>
\* what no step of a worker process touches
\* the image's handler files and the interpreter that runs /handler.py
installVars == <<files, interp>>
\* the build-time download scripts and the files they write
buildVars == <<civ, ins>>
\* one job run by handler_wrapper.py and by the code of PATCH_CODE
trialVars == <<trial, outcome>>
otherVars == <<endpointVars, installVars, buildVars, trialVars>>

vars == <<workerVars, otherVars>>

fsVars == <<dest, tmp, data>>
startVars == <<given, started>>
queueVars == <<pool, delivered>>
\* the refresh requests between the workers and the ComfyUI process
netVars == <<request, backlog>>

NoErr == [type |-> "none", filename |-> "", cause |-> ""]
\* RuntimeError(f"Failed to download character LoRA {filename}: {e}")
RuntimeError(filename, e) == [type |-> "RuntimeError", filename |-> filename, cause |-> e]
\* an OSError that propagates as the operating system raised it: it carries
\* the path of the failed call, not the message of download_character_loras
RawError(type, path) == [type |-> type, filename |-> path, cause |-> type]

NoJob == [keys |-> {}, character_lora_downloads |-> << >>, prompt |-> ""]
NoConfig == [keys |-> {}, handler |-> NoHandler, return_aggregate_stream |-> FALSE]

Event(ev, i) == [ev |-> ev, i |-> i]

(* ---------------------------- file system helpers ---------------------- *)
Referenced(n, d, t, fds) ==
    \/ \E f \in Filenames : d[f] = n \/ t[f] = n
    \/ \E w \in Workers : fds[w] = n

\* an inode nobody links or holds open is freed
Reclaim(d, t, fds, dat) ==
    [n \in Inodes |-> IF Referenced(n, d, t, fds) THEN dat[n] ELSE << >>]

FreeInode ==
    CHOOSE n \in Inodes :
        /\ ~Referenced(n, dest, tmp, fd)
        /\ \A m \in Inodes : ~Referenced(m, dest, tmp, fd) => n <= m

\* variant: the cache check never finds the file
IsFile_Never(f) == FALSE

\* os.path.isfile(dest)
IsFile(f) == dest[f] # 0
\* os.path.exists(tmp_path)
TmpExists(f) == tmp[f] # 0

Entry(w) == downloads[w][idx[w]]

(* ---------------------------- refresh endpoint: data ------------------- *)
\* folder names ComfyUI caches file listings for
Folders == {"loras", "checkpoints", "vae"}

\* folder_paths.filename_list_cache as refresh_models sees it:
\*   present   hasattr(folder_paths, 'filename_list_cache')
\*   isdict    isinstance(cache, dict)
\*   has_cache hasattr(cache, 'cache')
\*   has_clear hasattr(cache, 'clear')
\*   raises    the clear call on the object raises
\*   items     the folders a listing is cached for
AbsentCache ==
    [present |-> FALSE, isdict |-> FALSE, has_cache |-> FALSE, has_clear |-> FALSE,
     raises |-> FALSE, items |-> {}]

Caches ==
    {AbsentCache}
    \cup {[present |-> TRUE, isdict |-> TRUE, has_cache |-> FALSE, has_clear |-> TRUE,
           raises |-> FALSE, items |-> it] : it \in SUBSET Folders}
    \cup {c \in [present : {TRUE}, isdict : {FALSE}, has_cache : BOOLEAN,
                 has_clear : BOOLEAN, raises : BOOLEAN, items : SUBSET Folders] :
              c.raises => (c.has_cache \/ c.has_clear)}

NoResponse == [status |-> 0, body |-> ""]
\* web.json_response({"status": "ok"})
OkResponse == [status |-> 200, body |-> "ok"]
\* web.json_response({"status": "error", "message": str(e)}, status=500)
ErrorResponse == [status |-> 500, body |-> "error"]

\* variant: only the plain-dict shape is cleared
refresh_models_DictOnly(c) ==
    IF c.present /\ c.isdict
    THEN [response |-> OkResponse, cache |-> [c EXCEPT !.items = {}]]
    ELSE [response |-> OkResponse, cache |-> c]

\* refresh_models(request): the response and the cache it leaves
refresh_models(c) ==
    IF ~c.present THEN [response |-> OkResponse, cache |-> c]
    ELSE IF c.isdict THEN [response |-> OkResponse, cache |-> [c EXCEPT !.items = {}]]
    ELSE IF c.has_cache \/ c.has_clear
    THEN IF c.raises
         THEN [response |-> ErrorResponse, cache |-> c]
         ELSE [response |-> OkResponse, cache |-> [c EXCEPT !.items = {}]]
    ELSE [response |-> OkResponse, cache |-> c]

\* the ComfyUI process serves one POST /api/nsw/refresh-models request
Served ==
    /\ found' = cache.items
    /\ cache' = refresh_models(cache).cache
    /\ response' = refresh_models(cache).response

\* the outcome requests.post has for the worker when the request was served
StatusOutcome(resp) == IF resp.status = 200 THEN "200" ELSE "500"

\* a ComfyUI process with one of the given caches has started
EndpointUp(caches) ==
    /\ cache \in caches
    /\ found = {}
    /\ response = NoResponse

\* no ComfyUI process is looked at
EndpointOff ==
    /\ cache = AbsentCache
    /\ found = {}
    /\ response = NoResponse

(* ---------------------------- handler installation: data -------------- *)
MaxStmts == 3

\* the statements of PATCH_CODE, in the order of the text
PATCH_CODE ==
    <<"import os, shutil, urllib.request, requests",
      "_nsw_COMFY_DIR, _nsw_LORAS_DIR, _nsw_COMFY_HOST = ...",
      "def _nsw_download_character_loras",
      "def _nsw_refresh_cache",
      "import runpod as _nsw_runpod",
      "_nsw_original_start = _nsw_runpod.serverless.start",
      "def _nsw_patched_start",
      "_nsw_runpod.serverless.start = _nsw_patched_start">>

\* statements a vendor handler file is made of: the two ways of importing
\* the entrypoint, a definition, and the two ways of calling the entrypoint
VendorStatements ==
    {"import runpod",
     "from runpod.serverless import start",
     "def handler",
     "runpod.serverless.start(config)",
     "start(config)"}

RECURSIVE StatementsOfLen(_)
StatementsOfLen(n) ==
    IF n = 0 THEN {<< >>}
    ELSE {Append(p, st) : p \in StatementsOfLen(n - 1), st \in VendorStatements}

\* a vendor file runs without NameError: a name is imported before it is used
Runnable(src) ==
    \A k \in 1..Len(src) :
        /\ src[k] = "start(config)" =>
              \E j \in 1..(k - 1) : src[j] = "from runpod.serverless import start"
        /\ src[k] = "runpod.serverless.start(config)" =>
              \E j \in 1..(k - 1) : src[j] = "import runpod"

VendorFiles ==
    {src \in UNION {StatementsOfLen(n) : n \in 0..MaxStmts} : Runnable(src)}

\* a fresh interpreter: runpod.serverless.start is the vendor's function
FreshInterp ==
    [ip |-> 0, start_attr |-> "vendor", original_start |-> "unbound",
     start_name |-> "unbound", reached |-> << >>]

\* no image is being built or run
InstallOff ==
    /\ files = [handler_original |-> << >>, handler |-> << >>]
    /\ interp = FreshInterp

(* ---------------------------- build-time scripts: data ----------------- *)
\* the (url, name) list of download-civitai-loras.py, by file name
Loras ==
    <<"better-bodies-xl.safetensors", "cinecolor-harmonizer.safetensors",
      "melanin-mix-xl.safetensors", "couples-poses-xl.safetensors">>

LoraNames == {Loras[i] : i \in 1..Len(Loras)}

NoFile == [exists |-> FALSE, bytes |-> << >>]
\* a file holding the first k chunks of the asset
FileOf(k) == [exists |-> TRUE, bytes |-> SubSeq(Body(GoodUrl), 1, k)]

\* the file holds the whole asset
Whole(file) == file.exists /\ file.bytes = Body(GoodUrl)
\* the file exists and holds less than the asset
Partial(file) == file.exists /\ file.bytes # Body(GoodUrl)

\* exit = -1: the process has not exited; done: the names whose try block
\* reached its last statement
CivOff ==
    [pc |-> "off", key |-> FALSE, comfy_dir |-> FALSE, i |-> 0, failed |-> 0,
     requests |-> 0, done |-> {}, disk |-> [n \in LoraNames |-> NoFile], exit |-> -1]

InsOff ==
    [pc |-> "off", requests |-> 0, zip |-> NoFile, installed |-> FALSE, exit |-> -1]

\* no image build is looked at
BuildOff ==
    /\ civ = CivOff
    /\ ins = InsOff

(* ---------------------------- one job, run to its end: data ------------ *)
NoTrial ==
    [job |-> NoJob,
     env |-> [cached |-> {}, stale |-> {}, fetch |-> [f \in Filenames |-> [at |-> "", k |-> 0]],
              remove |-> "ok", utime |-> "ok", post |-> "200"]]

NoRun ==
    [dest |-> [f \in Filenames |-> NoFile], tmp |-> [f \in Filenames |-> NoFile],
     ops |-> << >>, exc |-> "", err |-> [type |-> "", message |-> ""],
     passed |-> << >>]

NoOutcome == [ran |-> FALSE, wrapper |-> NoRun, patch |-> NoRun]

\* no trial is looked at
TrialOff ==
    /\ trial = NoTrial
    /\ outcome = NoOutcome

\* the caches of the ComfyUI process the workers post to: none, a dict, an
\* object that is cleared, an object whose clear call raises
DictCache(it) ==
    [present |-> TRUE, isdict |-> TRUE, has_cache |-> FALSE, has_clear |-> TRUE,
     raises |-> FALSE, items |-> it]
ObjectCache(it, r) ==
    [present |-> TRUE, isdict |-> FALSE, has_cache |-> TRUE, has_clear |-> TRUE,
     raises |-> r, items |-> it]
WorkerCaches ==
    {AbsentCache, DictCache({"loras", "vae"}), ObjectCache({"loras"}, FALSE),
     ObjectCache({"loras"}, TRUE)}
SharedCaches == {DictCache({"loras", "vae"})}

OthersOff == InstallOff /\ BuildOff /\ TrialOff

(* ---------------------------- initial state ---------------------------- *)
\* an empty loras directory and no job in progress
InitRest ==
    /\ dest = [f \in Filenames |-> 0]
    /\ tmp = [f \in Filenames |-> 0]
    /\ data = [n \in Inodes |-> << >>]
    /\ given = [w \in Workers |-> NoConfig]
    /\ started = [w \in Workers |-> << >>]
    /\ delivered = 0
    /\ job = [w \in Workers |-> NoJob]
    /\ input = [w \in Workers |-> NoJob]
    /\ downloads = [w \in Workers |-> << >>]
    /\ idx = [w \in Workers |-> 0]
    /\ fd = [w \in Workers |-> 0]
    /\ off = [w \in Workers |-> 0]
    /\ cause = [w \in Workers |-> ""]
    /\ err = [w \in Workers |-> NoErr]
    /\ trace = [w \in Workers |-> << >>]
    /\ handled = [w \in Workers |-> << >>]
    /\ result = [w \in Workers |-> ""]
    /\ request = [w \in Workers |-> "none"]
    /\ backlog = 0

\* every worker process of the deployment starts
Init ==
    /\ InitRest
    /\ pc = [w \in Workers |-> "boot"]
    /\ pool = SharedJobs
    /\ EndpointUp(SharedCaches)
    /\ OthersOff

\* one worker process runs alone on the directory
InitSingle ==
    /\ InitRest
    /\ pc = [w \in Workers |-> IF w = 1 THEN "boot" ELSE "off"]
    /\ pool = Jobs
    /\ EndpointUp(WorkerCaches)
    /\ OthersOff

\* no worker process is looked at
WorkersOff ==
    /\ InitRest
    /\ pc = [w \in Workers |-> "off"]
    /\ pool = {}

(* ---------------------------- process start ---------------------------- *)
\* what the vendor start function does with the configuration it receives:
\* it serves jobs with the configured handler, or has nothing to serve
VendorStart(w, config) ==
    /\ started' = [started EXCEPT ![w] = Append(@, config)]
    /\ pc' = [pc EXCEPT ![w] =
                IF ConfigGetHandler(config).kind = "none" THEN "stopped" ELSE "idle"]

\* variant: the configuration is forwarded without wrapping the handler
_nsw_patched_start_NoWrap(config) == config

\* _nsw_patched_start(config): the result is the configuration forwarded to
\* the vendor start function
_nsw_patched_start(config) ==
    LET original_handler == ConfigGetHandler(config) IN
    IF original_handler.kind = "none" THEN config
    ELSE [config EXCEPT !.keys = @ \cup {"handler"},
                        !.handler = WrappedHandler(original_handler.fn)]

\* the workers of a deployment run one image: the configuration its code
\* passes to runpod.serverless.start is the one the workers already started
\* have passed
SameImage(w, config) ==
    \A v \in Workers \ {w} : started[v] # << >> => given[v] = config

\* the vendor code of the patched /handler.py calls runpod.serverless.start
PatchedStart(w) ==
    /\ pc[w] = "boot"
    /\ \E config \in Configs :
        /\ SameImage(w, config)
        /\ given' = [given EXCEPT ![w] = config]
        /\ VendorStart(w, _nsw_patched_start(config))
    /\ UNCHANGED <<fsVars, queueVars, job, input, downloads, idx, fd, off,
                   cause, err, trace, handled, result>>
    /\ UNCHANGED <<netVars, otherVars>>

\* handler_wrapper.py run as the entry point: runpod.serverless.start is
\* called with {"handler": wrapped_handler}, and wrapped_handler delegates to
\* handler_original.handler; no configuration of the vendor code is involved
WrapperStart(w) ==
    /\ pc[w] = "boot"
    /\ SameImage(w, NoConfig)
    /\ VendorStart(w, [keys |-> {"handler"}, handler |-> WrappedHandler("handler"),
                       return_aggregate_stream |-> FALSE])
    /\ UNCHANGED <<fsVars, given, queueVars, job, input, downloads, idx, fd, off,
                   cause, err, trace, handled, result>>
    /\ UNCHANGED <<netVars, otherVars>>

(* ---------------------------- wrapped_handler -------------------------- *)
\* variant: the list is read with get instead of pop, the key stays
Pop_KeepKey(inp) == inp

\* job_input.pop("character_lora_downloads", None): the mapping without the key
Pop(inp) ==
    [inp EXCEPT !.keys = @ \ {DownloadsKey}, !.character_lora_downloads = << >>]

\* variant: the cache refresh runs for every job, list or no list
AfterPop_AlwaysRefresh(list) == IF list # << >> THEN "loop" ELSE "utime"

\* if character_lora_downloads: the position wrapped_handler continues at
AfterPop(list) == IF list # << >> THEN "loop" ELSE "call"

\* the handler the vendor runtime calls for each job of worker w
ServingHandler(w) == ConfigGetHandler(started[w][Len(started[w])])

\* a job arrives: wrapped_handler pops the list and branches on it
Receive(w) ==
    /\ pc[w] = "idle"
    /\ delivered < MaxJobs
    /\ delivered' = delivered + 1
    /\ \E j \in pool :
        /\ job' = [job EXCEPT ![w] = j]
        /\ IF ServingHandler(w).kind = "wrapped"
           THEN /\ input' = [input EXCEPT ![w] = Pop(j)]
                /\ downloads' = [downloads EXCEPT ![w] = j.character_lora_downloads]
                /\ pc' = [pc EXCEPT ![w] = AfterPop(j.character_lora_downloads)]
                /\ idx' = [idx EXCEPT ![w] =
                              IF j.character_lora_downloads # << >> THEN 1 ELSE 0]
           ELSE /\ input' = [input EXCEPT ![w] = j]
                /\ pc' = [pc EXCEPT ![w] = "call"]
                /\ UNCHANGED <<downloads, idx>>
    /\ UNCHANGED <<fsVars, startVars, pool, fd, off, cause, err, trace,
                   handled, result>>
    /\ UNCHANGED <<netVars, otherVars>>

(* ---------------------------- download_character_loras ----------------- *)
Raise(w, e) ==
    /\ err' = [err EXCEPT ![w] = e]
    /\ pc' = [pc EXCEPT ![w] = "raised"]

\* variant: only the filename is validated
Invalid_FilenameOnly(entry) == entry.filename = ""

\* if not filename or not url: an absent key reads as "" (entry.get(key, ""))
Invalid(entry) == entry.filename = "" \/ entry.url = ""

\* head of the for loop: validity check, cache check, makedirs
CheckEntry(w) ==
    /\ pc[w] = "loop"
    /\ IF idx[w] > Len(downloads[w])
       THEN /\ pc' = [pc EXCEPT ![w] = "utime"]
            /\ UNCHANGED <<idx, err, trace>>
       ELSE IF Invalid(Entry(w))
       THEN /\ idx' = [idx EXCEPT ![w] = @ + 1]
            /\ trace' = [trace EXCEPT ![w] = Append(@, Event("skipped", idx[w]))]
            /\ UNCHANGED <<pc, err>>
       ELSE IF IsFile(Entry(w).filename)
       THEN \/ /\ idx' = [idx EXCEPT ![w] = @ + 1]
               /\ trace' = [trace EXCEPT ![w] = Append(@, Event("cached", idx[w]))]
               /\ UNCHANGED <<pc, err>>
            \/ \* os.path.getsize(dest), outside the try block, raises
               /\ Raise(w, RawError("OSError", Entry(w).filename))
               /\ UNCHANGED <<idx, trace>>
       ELSE \/ /\ pc' = [pc EXCEPT ![w] = "urlopen"]
               /\ UNCHANGED <<idx, err, trace>>
            \/ /\ Raise(w, RawError("OSError", "LORAS_DIR"))
               /\ UNCHANGED <<idx, trace>>
    /\ UNCHANGED <<fsVars, startVars, queueVars, job, input, downloads, fd, off,
                   cause, handled, result>>
    /\ UNCHANGED <<netVars, otherVars>>

\* an exception inside the try block reaches the except clause
Catch(w, e) ==
    /\ cause' = [cause EXCEPT ![w] = e]
    /\ pc' = [pc EXCEPT ![w] = "except"]

\* urllib.request.urlopen(req, timeout=120)
Urlopen(w) ==
    /\ pc[w] = "urlopen"
    /\ trace' = [trace EXCEPT ![w] = Append(@, Event("urlopen", idx[w]))]
    /\ \/ /\ pc' = [pc EXCEPT ![w] = "open"]
          /\ UNCHANGED cause
       \/ Catch(w, "URLError")
    /\ UNCHANGED <<fsVars, startVars, queueVars, job, input, downloads, idx, fd,
                   off, err, handled, result>>
    /\ UNCHANGED <<netVars, otherVars>>

\* open(tmp_path, "wb"): creates the file or truncates the one that is there
Open(w) ==
    /\ pc[w] = "open"
    /\ LET f == Entry(w).filename
           n == IF TmpExists(f) THEN tmp[f] ELSE FreeInode
       IN \/ /\ tmp' = [tmp EXCEPT ![f] = n]
             /\ data' = [data EXCEPT ![n] = << >>]
             /\ fd' = [fd EXCEPT ![w] = n]
             /\ off' = [off EXCEPT ![w] = 0]
             /\ pc' = [pc EXCEPT ![w] = "copy"]
             /\ trace' = [trace EXCEPT ![w] = Append(@, Event("open", idx[w]))]
             /\ UNCHANGED cause
          \/ /\ Catch(w, "OSError")
             /\ UNCHANGED <<tmp, data, fd, off, trace>>
    /\ UNCHANGED <<dest, startVars, queueVars, job, input, downloads, idx, err,
                   handled, result>>
    /\ UNCHANGED <<netVars, otherVars>>

\* shutil.copyfileobj(resp, f), one read per step: reads that return a
\* chunk and one that returns b"" and ends the loop; nothing compares the
\* bytes received with the length of the asset; leaving the with block
\* closes the file, and resp.close() follows
Copy(w) ==
    /\ pc[w] = "copy"
    /\ \/ \* a read returns the next chunk and the chunk is written
          /\ off[w] < NumChunks
          /\ data' = [data EXCEPT ![fd[w]] =
                        WriteAt(@, off[w], Body(Entry(w).url)[off[w] + 1])]
          /\ off' = [off EXCEPT ![w] = @ + 1]
          /\ UNCHANGED <<pc, fd, cause>>
       \/ \* a read returns b"", after the last chunk or earlier when the
          \* server stops sending: the with block closes the file, then
          \* resp.close() returns or raises
          /\ fd' = [fd EXCEPT ![w] = 0]
          /\ off' = [off EXCEPT ![w] = 0]
          /\ data' = Reclaim(dest, tmp, fd', data)
          /\ \/ /\ pc' = [pc EXCEPT ![w] = "rename"]
                /\ UNCHANGED cause
             \/ Catch(w, "OSError")
       \/ \* a read raises, the last one included: the with block closes the file
          /\ fd' = [fd EXCEPT ![w] = 0]
          /\ off' = [off EXCEPT ![w] = 0]
          /\ data' = Reclaim(dest, tmp, fd', data)
          /\ Catch(w, "IncompleteRead")
    /\ UNCHANGED <<dest, tmp, startVars, queueVars, job, input, downloads, idx,
                   err, trace, handled, result>>
    /\ UNCHANGED <<netVars, otherVars>>

\* os.rename(tmp_path, dest)
Rename(w) ==
    /\ pc[w] = "rename"
    /\ LET f == Entry(w).filename IN
       IF ~TmpExists(f)
       THEN /\ Catch(w, "FileNotFoundError")
            /\ UNCHANGED <<dest, tmp, data, idx, trace>>
       ELSE \/ /\ dest' = [dest EXCEPT ![f] = tmp[f]]
               /\ tmp' = [tmp EXCEPT ![f] = 0]
               /\ data' = Reclaim(dest', tmp', fd, data)
               /\ idx' = [idx EXCEPT ![w] = @ + 1]
               /\ pc' = [pc EXCEPT ![w] = "loop"]
               /\ trace' = [trace EXCEPT ![w] = Append(@, Event("rename", idx[w]))]
               /\ UNCHANGED cause
            \/ \* os.rename succeeds and os.path.getsize(dest) raises
               /\ dest' = [dest EXCEPT ![f] = tmp[f]]
               /\ tmp' = [tmp EXCEPT ![f] = 0]
               /\ data' = Reclaim(dest', tmp', fd, data)
               /\ trace' = [trace EXCEPT ![w] = Append(@, Event("rename", idx[w]))]
               /\ Catch(w, "OSError")
               /\ UNCHANGED idx
            \/ \* os.rename raises
               /\ Catch(w, "OSError")
               /\ UNCHANGED <<dest, tmp, data, idx, trace>>
    /\ UNCHANGED <<startVars, queueVars, job, input, downloads, fd, off, err,
                   handled, result>>
    /\ UNCHANGED <<netVars, otherVars>>

\* except clause: os.path.exists(tmp_path)
Except(w) ==
    /\ pc[w] = "except"
    /\ IF TmpExists(Entry(w).filename)
       THEN /\ pc' = [pc EXCEPT ![w] = "remove"]
            /\ UNCHANGED err
       ELSE Raise(w, RuntimeError(Entry(w).filename, cause[w]))
    /\ UNCHANGED <<fsVars, startVars, queueVars, job, input, downloads, idx, fd,
                   off, cause, trace, handled, result>>
    /\ UNCHANGED <<netVars, otherVars>>

\* except clause: os.remove(tmp_path), then raise RuntimeError
Remove(w) ==
    /\ pc[w] = "remove"
    /\ LET f == Entry(w).filename IN
       IF TmpExists(f)
       THEN \/ /\ tmp' = [tmp EXCEPT ![f] = 0]
               /\ data' = Reclaim(dest, tmp', fd, data)
               /\ trace' = [trace EXCEPT ![w] = Append(@, Event("remove", idx[w]))]
               /\ Raise(w, RuntimeError(f, cause[w]))
            \/ \* os.remove raises: the file stays and the OSError propagates
               /\ Raise(w, RawError("PermissionError", f \o ".tmp"))
               /\ UNCHANGED <<tmp, data, trace>>
       ELSE /\ Raise(w, RawError("FileNotFoundError", f \o ".tmp"))
            /\ UNCHANGED <<tmp, data, trace>>
    /\ UNCHANGED <<dest, startVars, queueVars, job, input, downloads, idx, fd,
                   off, cause, handled, result>>
    /\ UNCHANGED <<netVars, otherVars>>

(* ---------------------------- refresh_comfyui_model_cache -------------- *)
\* outcomes of os.utime(LORAS_DIR, None)
UtimeOutcomes == {"ok", "OSError"}
\* outcomes of requests.post(.../api/nsw/refresh-models, timeout=10): a
\* response with its status, or an exception
PostOutcomes == {"200", "500", "ConnectionError", "Timeout"}
PostExceptions == {"ConnectionError", "Timeout"}

\* variant: the refresh returns after the touch, without the POST
Utime_SkipPost(w) ==
    /\ pc[w] = "utime"
    /\ \E o \in UtimeOutcomes :
        trace' = [trace EXCEPT ![w] = Append(@, Event("utime:" \o o, 0))]
    /\ pc' = [pc EXCEPT ![w] = "call"]
    /\ UNCHANGED <<fsVars, startVars, queueVars, job, input, downloads, idx, fd,
                   off, cause, err, handled, result>>
    /\ UNCHANGED <<netVars, otherVars>>

\* os.utime in its try block: a failure is logged and swallowed
Utime(w) ==
    /\ pc[w] = "utime"
    /\ \E o \in UtimeOutcomes :
        trace' = [trace EXCEPT ![w] = Append(@, Event("utime:" \o o, 0))]
    /\ pc' = [pc EXCEPT ![w] = "post"]
    /\ UNCHANGED <<fsVars, startVars, queueVars, job, input, downloads, idx, fd,
                   off, cause, err, handled, result>>
    /\ UNCHANGED <<netVars, otherVars>>

\* requests.post(..., timeout=10), the request goes out: no connection is
\* made and the exception is logged, or the request reaches the ComfyUI
\* process and the worker waits for the response
PostSend(w) ==
    /\ pc[w] = "post"
    /\ \/ /\ trace' = [trace EXCEPT ![w] = Append(@, Event("post:ConnectionError", 0))]
          /\ pc' = [pc EXCEPT ![w] = "call"]
          /\ UNCHANGED request
       \/ /\ request' = [request EXCEPT ![w] = "sent"]
          /\ pc' = [pc EXCEPT ![w] = "wait"]
          /\ UNCHANGED trace
    /\ UNCHANGED <<fsVars, startVars, queueVars, job, input, downloads, idx, fd,
                   off, cause, err, handled, result, backlog>>
    /\ UNCHANGED otherVars

\* the ComfyUI process serves the request worker w is waiting on
ServePost(w) ==
    /\ request[w] = "sent"
    /\ Served
    /\ request' = [request EXCEPT ![w] = StatusOutcome(refresh_models(cache).response)]
    /\ UNCHANGED <<fsVars, startVars, queueVars, pc, job, input, downloads, idx, fd,
                   off, cause, err, trace, handled, result, backlog>>
    /\ UNCHANGED <<installVars, buildVars, trialVars>>

\* the ComfyUI process serves a request whose sender no longer waits for it
ServeAbandoned ==
    /\ backlog > 0
    /\ backlog' = backlog - 1
    /\ Served
    /\ UNCHANGED <<fsVars, startVars, queueVars, pc, job, input, downloads, idx, fd,
                   off, cause, err, trace, handled, result, request>>
    /\ UNCHANGED <<installVars, buildVars, trialVars>>

\* variant: the timeout of the POST is not caught
PostReturn_Propagate(w) ==
    /\ pc[w] = "wait"
    /\ \/ /\ request[w] \in {"200", "500"}
          /\ trace' = [trace EXCEPT ![w] = Append(@, Event("post:" \o request[w], 0))]
          /\ pc' = [pc EXCEPT ![w] = "call"]
          /\ UNCHANGED <<backlog, err>>
       \/ /\ trace' = [trace EXCEPT ![w] = Append(@, Event("post:Timeout", 0))]
          /\ backlog' = IF request[w] = "sent" THEN backlog + 1 ELSE backlog
          /\ err' = [err EXCEPT ![w] = [type |-> "Timeout", filename |-> "",
                                        cause |-> "Timeout"]]
          /\ pc' = [pc EXCEPT ![w] = "raised"]
    /\ request' = [request EXCEPT ![w] = "none"]
    /\ UNCHANGED <<fsVars, startVars, queueVars, job, input, downloads, idx, fd,
                   off, cause, handled, result>>
    /\ UNCHANGED otherVars

\* requests.post returns or raises, inside its try block: the response has
\* arrived and its status is logged, or ten seconds have passed, whether the
\* request was served or not, and the exception is logged; a request given
\* up on before it was served stays with the ComfyUI process
PostReturn(w) ==
    /\ pc[w] = "wait"
    /\ \/ /\ request[w] \in {"200", "500"}
          /\ trace' = [trace EXCEPT ![w] = Append(@, Event("post:" \o request[w], 0))]
          /\ UNCHANGED backlog
       \/ /\ trace' = [trace EXCEPT ![w] = Append(@, Event("post:Timeout", 0))]
          /\ backlog' = IF request[w] = "sent" THEN backlog + 1 ELSE backlog
    /\ request' = [request EXCEPT ![w] = "none"]
    /\ pc' = [pc EXCEPT ![w] = "call"]
    /\ UNCHANGED <<fsVars, startVars, queueVars, job, input, downloads, idx, fd,
                   off, cause, err, handled, result>>
    /\ UNCHANGED otherVars

(* ---------------------------- delegation ------------------------------- *)
\* return handler_original.handler(job)
Call(w) ==
    /\ pc[w] = "call"
    /\ \E r \in Results :
        /\ handled' = [handled EXCEPT ![w] =
                          Append(@, [fn |-> ServingHandler(w).fn,
                                     input |-> input[w], result |-> r])]
        /\ result' = [result EXCEPT ![w] = r]
    /\ trace' = [trace EXCEPT ![w] = Append(@, Event("handler", 0))]
    /\ pc' = [pc EXCEPT ![w] = "done"]
    /\ UNCHANGED <<fsVars, startVars, queueVars, job, input, downloads, idx, fd,
                   off, cause, err>>
    /\ UNCHANGED <<netVars, otherVars>>

\* the job-queue runtime reports the job and the worker waits for the next
Finish(w) ==
    /\ pc[w] \in {"done", "raised"}
    /\ pc' = [pc EXCEPT ![w] = "idle"]
    /\ job' = [job EXCEPT ![w] = NoJob]
    /\ input' = [input EXCEPT ![w] = NoJob]
    /\ downloads' = [downloads EXCEPT ![w] = << >>]
    /\ idx' = [idx EXCEPT ![w] = 0]
    /\ cause' = [cause EXCEPT ![w] = ""]
    /\ err' = [err EXCEPT ![w] = NoErr]
    /\ trace' = [trace EXCEPT ![w] = << >>]
    /\ handled' = [handled EXCEPT ![w] = << >>]
    /\ result' = [result EXCEPT ![w] = ""]
    /\ UNCHANGED <<fsVars, startVars, queueVars, fd, off>>
    /\ UNCHANGED <<netVars, otherVars>>

(* ---------------------------- specifications --------------------------- *)
Next ==
    \/ \E w \in Workers : PatchedStart(w)
    \/ \E w \in Workers : WrapperStart(w)
    \/ \E w \in Workers : Receive(w)
    \/ \E w \in Workers : CheckEntry(w)
    \/ \E w \in Workers : Urlopen(w)
    \/ \E w \in Workers : Open(w)
    \/ \E w \in Workers : Copy(w)
    \/ \E w \in Workers : Rename(w)
    \/ \E w \in Workers : Except(w)
    \/ \E w \in Workers : Remove(w)
    \/ \E w \in Workers : Utime(w)
    \/ \E w \in Workers : PostSend(w)
    \/ \E w \in Workers : ServePost(w)
    \/ ServeAbandoned
    \/ \E w \in Workers : PostReturn(w)
    \/ \E w \in Workers : Call(w)
    \/ \E w \in Workers : Finish(w)

Spec == Init /\ [][Next]_vars

SpecSingle == InitSingle /\ [][Next]_vars

(* ---------------------------- refresh endpoint ------------------------- *)
\* a POST /api/nsw/refresh-models request from any client is served
RefreshModels ==
    /\ Served
    /\ UNCHANGED <<workerVars, installVars, buildVars, trialVars>>

\* the ComfyUI process starts with any cache and serves refresh requests
InitEndpoint ==
    /\ WorkersOff
    /\ InstallOff
    /\ BuildOff
    /\ TrialOff
    /\ EndpointUp(Caches)

NextEndpoint == RefreshModels

SpecEndpoint == InitEndpoint /\ [][NextEndpoint]_vars

(* ---------------------------- handler installation --------------------- *)
\* variant: the patch is written after the original code
PatchedSource_Appended(original) == original \o <<"">> \o PATCH_CODE

\* f.write(PATCH_CODE); f.write("\n"); f.write(original)
PatchedSource(original) == PATCH_CODE \o <<"">> \o original

\* patch_handler.py at image build time: /handler.py is generated
PatchHandler ==
    /\ files.handler = << >>
    /\ files' = [files EXCEPT !.handler = PatchedSource(files.handler_original)]
    /\ UNCHANGED <<interp, workerVars, endpointVars, buildVars, trialVars>>

\* the effect of one statement of /handler.py on the interpreter
Execute(st, in) ==
    LET next == [in EXCEPT !.ip = @ + 1] IN
    CASE st = "_nsw_original_start = _nsw_runpod.serverless.start" ->
            [next EXCEPT !.original_start = in.start_attr]
      [] st = "_nsw_runpod.serverless.start = _nsw_patched_start" ->
            [next EXCEPT !.start_attr = "patched"]
      [] st = "from runpod.serverless import start" ->
            [next EXCEPT !.start_name = in.start_attr]
      [] st = "runpod.serverless.start(config)" ->
            [next EXCEPT !.reached = Append(@, in.start_attr)]
      [] st = "start(config)" ->
            [next EXCEPT !.reached = Append(@, in.start_name)]
      [] OTHER -> next

\* the container runs /handler.py: the interpreter executes its next statement
RunStatement ==
    /\ files.handler # << >>
    /\ interp.ip < Len(files.handler)
    /\ interp' = Execute(files.handler[interp.ip + 1], interp)
    /\ UNCHANGED <<files, workerVars, endpointVars, buildVars, trialVars>>

\* an image build with any runnable vendor handler
InitInstall ==
    /\ WorkersOff
    /\ EndpointOff
    /\ BuildOff
    /\ TrialOff
    /\ \E src \in VendorFiles : files = [handler_original |-> src, handler |-> << >>]
    /\ interp = FreshInterp

NextInstall == PatchHandler \/ RunStatement

SpecInstall == InitInstall /\ [][NextInstall]_vars

(* ---------------------------- download-civitai-loras.py ---------------- *)
\* lines 12-25: the key check, the list, lora_dir, failed = 0
CivStart ==
    /\ civ.pc = "start"
    /\ civ' = IF ~civ.key THEN [civ EXCEPT !.pc = "exited", !.exit = 0]
              ELSE IF ~civ.comfy_dir THEN [civ EXCEPT !.pc = "exited", !.exit = 1]
              ELSE [civ EXCEPT !.pc = "loop", !.i = 1]
    /\ UNCHANGED <<ins, workerVars, endpointVars, installVars, trialVars>>

\* lines 27-40: one iteration of the loop, with every way its try block ends
CivDownload ==
    /\ civ.pc = "loop"
    /\ civ.i <= Len(Loras)
    /\ LET name == Loras[civ.i]
           after == [civ EXCEPT !.i = @ + 1] IN
       \/ \* urlopen raises, or open(lora_dir + name, "wb") raises
          civ' = [after EXCEPT !.requests = @ + 1, !.failed = @ + 1]
       \/ \* a read of copyfileobj raises after k chunks were written; with
          \* k = NumChunks it is the last read, resp.close() or getsize
          \E k \in 0..NumChunks :
              civ' = [after EXCEPT !.requests = @ + 1, !.failed = @ + 1,
                                   !.disk[name] = FileOf(k)]
       \/ \* the try block runs to its end: copyfileobj stopped at the first
          \* empty read, after the whole body or after the k chunks the
          \* server sent before it closed the connection
          \E k \in 0..NumChunks :
              civ' = [after EXCEPT !.requests = @ + 1, !.done = @ \cup {name},
                                   !.disk[name] = FileOf(k)]
    /\ UNCHANGED <<ins, workerVars, endpointVars, installVars, trialVars>>

\* lines 43-44: if failed: sys.exit(1); otherwise the script ends normally
CivExitCode(failed) == IF failed # 0 THEN 1 ELSE 0

\* lines 42-44: the summary and the exit
CivExit ==
    /\ civ.pc = "loop"
    /\ civ.i > Len(Loras)
    /\ civ' = [civ EXCEPT !.pc = "exited", !.exit = CivExitCode(civ.failed)]
    /\ UNCHANGED <<ins, workerVars, endpointVars, installVars, trialVars>>

(* ---------------------------- download-insightface.py ------------------ *)
\* an exception nothing catches ends the process with exit code 1
InsUncaught(p) == [p EXCEPT !.pc = "exited", !.exit = 1]

\* line 12: os.makedirs(outdir, exist_ok=True)
InsMakedirs ==
    /\ ins.pc = "makedirs"
    /\ \/ ins' = [ins EXCEPT !.pc = "download"]
       \/ ins' = InsUncaught(ins)
    /\ UNCHANGED <<civ, workerVars, endpointVars, installVars, trialVars>>

\* lines 15-19: the request and the copy to /tmp/buffalo_l.zip
InsDownload ==
    /\ ins.pc = "download"
    /\ LET asked == [ins EXCEPT !.requests = @ + 1] IN
       \/ \* urlopen raises, or open(dest, "wb") raises
          ins' = InsUncaught(asked)
       \/ \* a read of copyfileobj raises after k chunks were written; with
          \* k = NumChunks it is the last read or resp.close()
          \E k \in 0..NumChunks :
              ins' = InsUncaught([asked EXCEPT !.zip = FileOf(k)])
       \/ \* no call raises: copyfileobj stopped at the first empty read,
          \* after the whole body or after the k chunks the server sent
          \E k \in 0..NumChunks :
              ins' = [asked EXCEPT !.zip = FileOf(k), !.pc = "extract"]
    /\ UNCHANGED <<civ, workerVars, endpointVars, installVars, trialVars>>

\* lines 22-23: zipfile.ZipFile(dest).extractall(outdir); an archive cut
\* short has no central directory and ZipFile raises BadZipFile
InsExtract ==
    /\ ins.pc = "extract"
    /\ \/ /\ Whole(ins.zip)
          /\ ins' = [ins EXCEPT !.installed = TRUE, !.pc = "remove"]
       \/ ins' = InsUncaught(ins)
    /\ UNCHANGED <<civ, workerVars, endpointVars, installVars, trialVars>>

\* lines 24-26: os.remove(dest) and the normal end of the script
InsRemove ==
    /\ ins.pc = "remove"
    /\ \/ ins' = [ins EXCEPT !.zip = NoFile, !.pc = "exited", !.exit = 0]
       \/ ins' = InsUncaught(ins)
    /\ UNCHANGED <<civ, workerVars, endpointVars, installVars, trialVars>>

\* an image build runs both scripts, with or without the optional settings
InitBuild ==
    /\ WorkersOff
    /\ EndpointOff
    /\ InstallOff
    /\ TrialOff
    /\ \E key \in BOOLEAN, comfy_dir \in BOOLEAN :
          civ = [CivOff EXCEPT !.pc = "start", !.key = key, !.comfy_dir = comfy_dir]
    /\ ins = [InsOff EXCEPT !.pc = "makedirs"]

NextBuild ==
    \/ CivStart
    \/ CivDownload
    \/ CivExit
    \/ InsMakedirs
    \/ InsDownload
    \/ InsExtract
    \/ InsRemove

SpecBuild == InitBuild /\ [][NextBuild]_vars

(* ---------------------------- one job, run to its end ------------------ *)
\* how the retrieval of one file goes: the call that fails ("" for none),
\* and for a failing copy the number of chunks written before the read that
\* raises (NumChunks: the last read, which would have returned b"")
FetchOutcomes ==
    {[at |-> a, k |-> 0] :
        a \in {"", "makedirs", "urlopen", "open", "close", "rename", "getsize"}}
    \cup {[at |-> "copy", k |-> k] : k \in 0..NumChunks}
    \cup {[at |-> "short", k |-> k] : k \in 0..(NumChunks - 1)}

\* how os.remove of a temporary file goes
RemoveOutcomes == {"ok", "PermissionError"}

\* the ways the retrievals go in a directory where the files of c are there:
\* such a file is not retrieved, only its size is looked up
FetchesIn(c) ==
    {fn \in [Filenames -> FetchOutcomes] : \A f \in c : fn[f].at \in {"", "getsize"}}

\* the surroundings with the files of c in the directory and os.remove going
\* as r; a temporary file next to a file that is there is never looked at;
\* os.remove is called in the except clause only, and the refresh runs only
\* when no except clause was entered
EnvsIn(c, r) ==
    [cached : {c}, stale : SUBSET (Filenames \ c), fetch : FetchesIn(c), remove : {r},
     utime : IF r = "ok" THEN UtimeOutcomes ELSE {"ok"},
     post : IF r = "ok" THEN PostOutcomes ELSE {"200"}]

\* the run's surroundings: the regular files and temporary files already in
\* the loras directory, how each retrieval goes, how os.remove, utime and
\* the POST go
Envs == UNION {EnvsIn(c, r) : c \in SUBSET Filenames, r \in RemoveOutcomes}

\* the run records an operation on a path
Did(st, op, path) == [st EXCEPT !.ops = Append(@, [op |-> op, path |-> path])]
\* the operation raises
Raised(st, exc) == [st EXCEPT !.exc = exc]

TmpName(filename) == filename \o ".tmp"

\* dict.pop(key, None): the value (an absent key gives the falsy None, here
\* the empty list) and the mapping that is left
DictPop(inp, key) ==
    IF key = DownloadsKey /\ key \in inp.keys
    THEN [value |-> inp.character_lora_downloads, rest |-> Pop(inp)]
    ELSE [value |-> << >>, rest |-> inp]

\* The calls below are made one after the other; a call after one that has
\* raised is not reached, and the run is left as the raising call left it.

\* os.makedirs(os.path.dirname(dest), exist_ok=True)
OsMakedirs(st, oc) ==
    IF st.exc # "" THEN st ELSE
    LET s1 == Did(st, "makedirs", "LORAS_DIR") IN
    IF oc.at = "makedirs" THEN Raised(s1, "OSError") ELSE s1

\* urllib.request.urlopen(req, timeout)
Urlrequest(st, url, oc) ==
    IF st.exc # "" THEN st ELSE
    LET s1 == Did(st, "urlopen", url) IN
    IF oc.at = "urlopen" THEN Raised(s1, "URLError") ELSE s1

\* with open(path, "wb") as f: shutil.copyfileobj(resp, f); the copy ends
\* at the first empty read, whole body or not
OsOpenAndCopy(st, filename, oc) ==
    IF st.exc # "" THEN st ELSE
    LET s1 == Did(st, "open", TmpName(filename)) IN
    IF oc.at = "open" THEN Raised(s1, "OSError")
    ELSE IF oc.at = "copy"
    THEN Raised([s1 EXCEPT !.tmp[filename] = FileOf(oc.k)], "IncompleteRead")
    ELSE IF oc.at = "short"
    THEN [s1 EXCEPT !.tmp[filename] = FileOf(oc.k)]
    ELSE [s1 EXCEPT !.tmp[filename] = FileOf(NumChunks)]

\* resp.close()
RespClose(st, oc) ==
    IF st.exc # "" THEN st ELSE
    LET s1 == Did(st, "close", "") IN
    IF oc.at = "close" THEN Raised(s1, "OSError") ELSE s1

\* os.rename(tmp, dest)
OsRename(st, filename, oc) ==
    IF st.exc # "" THEN st ELSE
    LET s1 == Did(st, "rename", TmpName(filename)) IN
    IF oc.at = "rename" THEN Raised(s1, "OSError")
    ELSE [s1 EXCEPT !.dest[filename] = st.tmp[filename], !.tmp[filename] = NoFile]

\* os.path.getsize(dest)
OsGetsize(st, filename, oc) ==
    IF st.exc # "" THEN st ELSE
    LET s1 == Did(st, "getsize", filename) IN
    IF oc.at = "getsize" THEN Raised(s1, "OSError") ELSE s1

\* os.remove(tmp)
OsRemove(st, filename, env) ==
    LET s1 == Did(st, "remove", TmpName(filename)) IN
    IF env.remove = "ok" THEN [s1 EXCEPT !.tmp[filename] = NoFile]
    ELSE Raised(s1, env.remove)

\* the directory a run starts in
StartOf(env) ==
    [NoRun EXCEPT !.dest = [f \in Filenames |->
                              IF f \in env.cached THEN FileOf(NumChunks) ELSE NoFile],
                  !.tmp = [f \in Filenames |->
                              IF f \in env.stale THEN FileOf(0) ELSE NoFile]]

\* an except clause has caught the exception
Caught(st) == [st EXCEPT !.exc = ""]
\* the exception leaves the function as it was raised
Propagated(st) == [st EXCEPT !.err = [type |-> st.exc, message |-> st.exc]]

(* ---------------------------- handler_wrapper.py, run to its end ------- *)
\* download_character_loras(downloads), from entry i on; an empty list
\* returns at once
RECURSIVE download_character_loras(_, _, _, _)
download_character_loras(list, i, st, env) ==
    IF i > Len(list) THEN st
    ELSE
    LET filename == list[i].filename
        url == list[i].url
    IN
    IF filename = "" \/ url = ""
    THEN download_character_loras(list, i + 1, st, env)
    ELSE
    LET checked == Did(st, "isfile", filename)
        oc == env.fetch[filename]
    IN
    IF st.dest[filename].exists
    THEN LET logged == OsGetsize(checked, filename, oc) IN
         IF logged.exc # "" THEN Propagated(logged)
         ELSE download_character_loras(list, i + 1, logged, env)
    ELSE
    LET made == OsMakedirs(checked, oc) IN
    IF made.exc # "" THEN Propagated(made)
    ELSE
    LET \* the try block
        asked == Urlrequest(made, url, oc)
        copied == OsOpenAndCopy(asked, filename, oc)
        closed == RespClose(copied, oc)
        renamed == OsRename(closed, filename, oc)
        sized == OsGetsize(renamed, filename, oc)
    IN
    IF sized.exc = ""
    THEN download_character_loras(list, i + 1, sized, env)
    ELSE
    LET \* the except clause
        probed == Did(Caught(sized), "exists", TmpName(filename))
        cleaned == IF sized.tmp[filename].exists THEN OsRemove(probed, filename, env)
                   ELSE probed
    IN
    IF cleaned.exc # "" THEN Propagated(cleaned)
    ELSE
    [cleaned EXCEPT !.err =
        [type |-> "RuntimeError",
         message |-> "Failed to download character LoRA " \o filename \o ": " \o sized.exc]]

\* refresh_comfyui_model_cache(): both try blocks log what they catch
refresh_comfyui_model_cache(st, env) ==
    LET touch == Did(st, "utime", "LORAS_DIR")
        touched == Caught(IF env.utime # "ok" THEN Raised(touch, env.utime) ELSE touch)
        post == Did(touched, "post", "/api/nsw/refresh-models")
    IN
    Caught(IF env.post \in PostExceptions THEN Raised(post, env.post) ELSE post)

\* wrapped_handler(job) in the directory and network of env
wrapped_handler(job_input, env) ==
    LET popped == DictPop(job_input, "character_lora_downloads")
        character_lora_downloads == popped.value
        loaded == IF character_lora_downloads # << >>
                  THEN download_character_loras(character_lora_downloads, 1, StartOf(env), env)
                  ELSE StartOf(env)
        refreshed == IF character_lora_downloads # << >> /\ loaded.err.type = ""
                     THEN refresh_comfyui_model_cache(loaded, env)
                     ELSE loaded
    IN
    IF refreshed.err.type # "" THEN refreshed
    ELSE [Did(refreshed, "handler", "") EXCEPT !.passed = Append(@, popped.rest)]

(* ---------------------------- vocabulary of the properties ------------- *)
\* worker w is inside download_character_loras
InDownload(w) == pc[w] \in {"loop", "urlopen", "open", "copy", "rename", "except", "remove"}
\* worker w is inside wrapped_handler or has just left it
InJob(w) == InDownload(w) \/ pc[w] \in {"utime", "post", "wait", "call", "done", "raised"}

\* the file at <loras>/<f> holds the complete asset
Complete(f) == data[dest[f]] = Body(GoodUrl)

Positions(w) == 1..Len(trace[w])
HasEvent(w, ev, i) == \E k \in Positions(w) : trace[w][k] = Event(ev, i)
CountEvent(w, ev, i) == Cardinality({k \in Positions(w) : trace[w][k] = Event(ev, i)})

UtimeEvents == {Event("utime:" \o o, 0) : o \in UtimeOutcomes}
PostEvents == {Event("post:" \o o, 0) : o \in PostOutcomes}
UtimePositions(w) == {k \in Positions(w) : trace[w][k] \in UtimeEvents}
PostPositions(w) == {k \in Positions(w) : trace[w][k] \in PostEvents}
HandlerPositions(w) == {k \in Positions(w) : trace[w][k] = Event("handler", 0)}
\* side effects of the download of one list entry
FetchPositions(w) ==
    {k \in Positions(w) : trace[w][k].ev \in {"urlopen", "open", "rename", "remove"}}

ValidEntry(e) == e.filename # "" /\ e.url # ""

(* ---------------------------- PATCH_CODE, run to its end -------------- *)
\* _nsw_download_character_loras(downloads), from entry i on
RECURSIVE _nsw_download_character_loras(_, _, _, _)
_nsw_download_character_loras(list, i, st, env) ==
    IF list = << >> \/ i > Len(list) THEN st
    ELSE
    LET entry == list[i] IN
    IF entry.filename = "" \/ entry.url = ""
    THEN _nsw_download_character_loras(list, i + 1, st, env)
    ELSE IF st.dest[entry.filename].exists
    THEN LET sz == OsGetsize(Did(st, "isfile", entry.filename), entry.filename,
                             env.fetch[entry.filename])
         IN
         CASE sz.exc = "" -> _nsw_download_character_loras(list, i + 1, sz, env)
           [] sz.exc # "" -> Propagated(sz)
    ELSE
    LET oc == env.fetch[entry.filename]
        dir == OsMakedirs(Did(st, "isfile", entry.filename), oc)
        \* try
        t4 == OsGetsize(
                  OsRename(
                      RespClose(
                          OsOpenAndCopy(Urlrequest(dir, entry.url, oc), entry.filename, oc),
                          oc),
                      entry.filename, oc),
                  entry.filename, oc)
        \* except Exception as e
        e1 == Did(Caught(t4), "exists", TmpName(entry.filename))
        e2 == IF t4.tmp[entry.filename].exists THEN OsRemove(e1, entry.filename, env)
              ELSE e1
    IN
    CASE dir.exc # "" -> Propagated(dir)
      [] dir.exc = "" /\ t4.exc = "" ->
            _nsw_download_character_loras(list, i + 1, t4, env)
      [] dir.exc = "" /\ t4.exc # "" /\ e2.exc # "" -> Propagated(e2)
      [] dir.exc = "" /\ t4.exc # "" /\ e2.exc = "" ->
            [e2 EXCEPT !.err =
                [type |-> "RuntimeError",
                 message |-> "Failed to download character LoRA " \o entry.filename
                             \o ": " \o t4.exc]]

\* variant: the loras directory is not touched before the POST
_nsw_refresh_cache_NoTouch(st, env) ==
    Caught(IF env.post \in PostExceptions
           THEN Raised(Did(st, "post", "/api/nsw/refresh-models"), env.post)
           ELSE Did(st, "post", "/api/nsw/refresh-models"))

\* _nsw_refresh_cache(): utime with its failure passed over, then the POST
_nsw_refresh_cache(st, env) ==
    LET u == Caught(IF env.utime = "ok" THEN Did(st, "utime", "LORAS_DIR")
                    ELSE Raised(Did(st, "utime", "LORAS_DIR"), env.utime))
        r == IF env.post \in PostExceptions
             THEN Raised(Did(u, "post", "/api/nsw/refresh-models"), env.post)
             ELSE Did(u, "post", "/api/nsw/refresh-models")
    IN Caught(r)

\* _nsw_wrapped(job) in the directory and network of env
_nsw_wrapped(job_input, env) ==
    LET popped == DictPop(job_input, "character_lora_downloads")
        start == StartOf(env)
    IN
    IF popped.value = << >>
    THEN [Did(start, "handler", "") EXCEPT !.passed = Append(@, popped.rest)]
    ELSE
    LET d == _nsw_download_character_loras(popped.value, 1, start, env) IN
    IF d.err.type # "" THEN d
    ELSE [Did(_nsw_refresh_cache(d, env), "handler", "")
             EXCEPT !.passed = Append(@, popped.rest)]

(* ---------------------------- both implementations on one job --------- *)
\* the job of the trial is run by each implementation from the same start
RunTrial ==
    /\ ~outcome.ran
    /\ outcome' = [ran |-> TRUE,
                   wrapper |-> wrapped_handler(trial.job, trial.env),
                   patch |-> _nsw_wrapped(trial.job, trial.env)]
    /\ UNCHANGED <<trial, workerVars, endpointVars, installVars, buildVars>>

\* any job in any directory, with any behaviour of network and endpoint
InitTrial ==
    /\ WorkersOff
    /\ EndpointOff
    /\ InstallOff
    /\ BuildOff
    /\ trial \in [job : Jobs, env : Envs]
    /\ outcome = NoOutcome

NextTrial == RunTrial

SpecTrial == InitTrial /\ [][NextTrial]_vars

(* ---------------------------- C1 --------------------------------------- *)
\* C1: whatever the workers sharing the loras directory are doing, a file
\* visible under a final name <loras>/<filename> holds the complete asset
\* bytes; no reader sees a partially written file under the final name.
C1_FinalNameAlwaysComplete ==
    \A f \in Filenames : IsFile(f) => Complete(f)

(* ---------------------------- C2 --------------------------------------- *)
\* C2: once every worker that raced on a download has left
\* download_character_loras, every file at a final destination holds the
\* complete asset bytes and no <destination>.tmp file is left behind.
C2_FinalStateCorrectAfterRace ==
    (\A w \in Workers : ~InDownload(w)) =>
        \A f \in Filenames : (IsFile(f) => Complete(f)) /\ ~TmpExists(f)

(* ---------------------------- C3 --------------------------------------- *)
\* C3: a worker running alone whose fetch of an absent asset failed during
\* the transfer or the rename has, when the error leaves the function, no
\* file at the destination, no <destination>.tmp, and a RuntimeError that
\* names the asset's filename and the underlying cause.
C3_FailedFetchLeavesNothing ==
    \A w \in Workers :
        (pc[w] = "raised" /\ cause[w] # "") =>
            /\ dest[Entry(w).filename] = 0
            /\ tmp[Entry(w).filename] = 0
            /\ err[w].type = "RuntimeError"
            /\ err[w].filename = Entry(w).filename
            /\ err[w].cause = cause[w]

(* ---------------------------- C4 --------------------------------------- *)
\* C4: the entries of a list are processed in list order; an entry whose
\* fetch failed is requested once only and never left behind, so nothing at
\* a later position is attempted, and the error that ends the call is a
\* RuntimeError naming the entry that failed.
C4_BatchAbort ==
    \A w \in Workers :
        InJob(w) =>
            /\ \A k, l \in Positions(w) :
                (k < l /\ trace[w][k].i > 0 /\ trace[w][l].i > 0) =>
                    trace[w][k].i <= trace[w][l].i
            /\ \A k \in Positions(w) : trace[w][k].i <= idx[w]
            /\ \A i \in 1..Len(downloads[w]) :
                /\ CountEvent(w, "urlopen", i) <= 1
                /\ (i < idx[w] /\ HasEvent(w, "urlopen", i)) => HasEvent(w, "rename", i)
            /\ (pc[w] = "raised" /\ cause[w] # "") =>
                /\ err[w].type = "RuntimeError"
                /\ err[w].filename = downloads[w][idx[w]].filename
                /\ ~HasEvent(w, "rename", idx[w])

(* ---------------------------- C5 --------------------------------------- *)
\* worker w takes its step at the head of the loop
StepsAtLoopHead(w) ==
    /\ pc[w] = "loop"
    /\ <<pc[w], idx[w], trace[w], err[w]>>' # <<pc[w], idx[w], trace[w], err[w]>>

\* C5: an entry whose destination is a file when it is examined causes no
\* network request and no .tmp file, and the step that examines it leaves
\* the directory unchanged: it records the hit and moves on, or the size
\* lookup of its log line raises and nothing is recorded; a batch that
\* succeeded leaves every valid entry's file in place and files stay, so the
\* same batch run again is all hits.
C5_CacheHit ==
    /\ [](\A w \in Workers : \A i \in 1..Len(downloads[w]) :
            HasEvent(w, "cached", i) =>
                \A ev \in {"urlopen", "open", "rename", "remove"} : ~HasEvent(w, ev, i))
    /\ [][\A w \in Workers :
            (/\ StepsAtLoopHead(w)
             /\ idx[w] <= Len(downloads[w])
             /\ ValidEntry(Entry(w))
             /\ dest[Entry(w).filename] # 0) =>
                /\ fsVars' = fsVars
                /\ \/ /\ pc'[w] = "loop"
                      /\ idx'[w] = idx[w] + 1
                      /\ trace'[w] = Append(trace[w], Event("cached", idx[w]))
                   \/ /\ pc'[w] = "raised"
                      /\ idx'[w] = idx[w]
                      /\ trace'[w] = trace[w]]_vars
    /\ [](\A w \in Workers :
            pc[w] \in {"utime", "post", "call", "done"} =>
                \A i \in 1..Len(downloads[w]) :
                    ValidEntry(downloads[w][i]) => dest[downloads[w][i].filename] # 0)
    /\ [][\A f \in Filenames : dest[f] # 0 => dest'[f] # 0]_vars

\* a batch of valid entries ran to the end without any network request
C5_Witness ==
    \E w \in Workers :
        /\ pc[w] = "done"
        /\ downloads[w] # << >>
        /\ \A i \in 1..Len(downloads[w]) : HasEvent(w, "cached", i)
        /\ FetchPositions(w) = {}

(* ---------------------------- C6 --------------------------------------- *)
\* C6: a job with a non-empty character_lora_downloads list either has all
\* its fetches succeed and the original handler called once with the input
\* minus that key, every other key and value as delivered, or an error leaves
\* wrapped_handler and the original handler was never called.
C6_FieldRemoval ==
    \A w \in Workers :
        (InJob(w) /\ job[w].character_lora_downloads # << >>) =>
            /\ Len(handled[w]) <= 1
            /\ pc[w] = "done" => (Len(handled[w]) = 1 /\ err[w] = NoErr)
            /\ handled[w] # << >> =>
                /\ handled[w][1].input.keys = job[w].keys \ {DownloadsKey}
                /\ handled[w][1].input.prompt = job[w].prompt
                /\ handled[w][1].input.character_lora_downloads = << >>
                /\ \A i \in 1..Len(downloads[w]) :
                      HasEvent(w, "urlopen", i) => HasEvent(w, "rename", i)
                /\ err[w] = NoErr
            /\ pc[w] = "raised" => (handled[w] = << >> /\ err[w] # NoErr)
            /\ err[w] # NoErr => pc[w] = "raised"

\* a download succeeded and the handler got the input without the key
C6_Witness ==
    \E w \in Workers :
        /\ pc[w] = "done"
        /\ "prompt" \in job[w].keys
        /\ \E i \in 1..Len(downloads[w]) : HasEvent(w, "rename", i)
        /\ Len(handled[w]) = 1

(* ---------------------------- C7 --------------------------------------- *)
\* C7: a job whose input has no character_lora_downloads key goes straight
\* to the original handler, which is called once with the input as
\* delivered; no request, file operation, mtime touch or POST precedes it.
C7_PassThrough ==
    \A w \in Workers :
        (InJob(w) /\ DownloadsKey \notin job[w].keys) =>
            /\ pc[w] \in {"call", "done"}
            /\ pc[w] = "call" => (trace[w] = << >> /\ handled[w] = << >>)
            /\ pc[w] = "done" =>
                /\ trace[w] = <<Event("handler", 0)>>
                /\ Len(handled[w]) = 1
                /\ handled[w][1].input = job[w]

\* a job carrying only a prompt reached the original handler
C7_Witness ==
    \E w \in Workers :
        /\ pc[w] = "done"
        /\ job[w].keys = {"prompt"}
        /\ Len(handled[w]) = 1

(* ---------------------------- C8 --------------------------------------- *)
\* C8: once the downloads of a job have succeeded and the invalidation has
\* started, no outcome of the mtime touch or of the POST raises: the worker
\* goes on to call the original handler exactly once and returns its result.
C8_InvalidationNeverFailsJob ==
    \A w \in Workers :
        /\ (pc[w] \in {"utime", "post", "wait"} \/ UtimePositions(w) # {}) =>
              (pc[w] \in {"utime", "post", "wait", "call", "done"} /\ err[w] = NoErr)
        /\ (pc[w] = "done" /\ UtimePositions(w) # {}) =>
              /\ Len(handled[w]) = 1
              /\ Cardinality(HandlerPositions(w)) = 1
              /\ result[w] = handled[w][1].result

\* the touch failed and the POST of the only job timed out although the
\* endpoint served the request and answered 200, yet the handler ran
C8_Witness ==
    \E w \in Workers :
        /\ pc[w] = "done"
        /\ delivered = 1
        /\ HasEvent(w, "utime:OSError", 0)
        /\ HasEvent(w, "post:Timeout", 0)
        /\ response.status = 200
        /\ \E i \in 1..Len(downloads[w]) : HasEvent(w, "rename", i)
        /\ Len(handled[w]) = 1

(* ---------------------------- C9 --------------------------------------- *)
ListPositions(w) == {k \in Positions(w) : trace[w][k].i > 0}

\* C9: within a job with a non-empty list every fetch is over before the
\* mtime touch, the touch precedes the single POST, the POST is sent after
\* the touch and has returned or raised before the original handler is
\* called, so the worker waits on no request while the handler runs, and a
\* failed fetch means no invalidation.
C9_Ordering ==
    \A w \in Workers :
        (InJob(w) /\ job[w].character_lora_downloads # << >>) =>
            /\ \A k \in ListPositions(w) : \A u \in UtimePositions(w) : k < u
            /\ \A u \in UtimePositions(w) : \A p \in PostPositions(w) : u < p
            /\ \A p \in PostPositions(w) : \A h \in HandlerPositions(w) : p < h
            /\ Cardinality(UtimePositions(w)) <= 1
            /\ Cardinality(PostPositions(w)) <= 1
            /\ PostPositions(w) # {} => UtimePositions(w) # {}
            /\ HandlerPositions(w) # {} => PostPositions(w) # {}
            /\ UtimePositions(w) # {} =>
                /\ idx[w] = Len(downloads[w]) + 1
                /\ \A i \in 1..Len(downloads[w]) :
                      HasEvent(w, "urlopen", i) => HasEvent(w, "rename", i)
            /\ err[w] # NoErr => (UtimePositions(w) = {} /\ PostPositions(w) = {})
            /\ pc[w] = "wait" => (UtimePositions(w) # {} /\ PostPositions(w) = {})
            /\ request[w] # "none" => pc[w] = "wait"
            /\ pc[w] \in {"call", "done"} => PostPositions(w) # {}

\* a download, the touch, the POST and the handler call all happened
C9_Witness ==
    \E w \in Workers :
        /\ pc[w] = "done"
        /\ \E i \in 1..Len(downloads[w]) : HasEvent(w, "rename", i)
        /\ UtimePositions(w) # {}
        /\ PostPositions(w) # {}
        /\ HandlerPositions(w) # {}

(* ---------------------------- C10 -------------------------------------- *)
\* worker w was started by the vendor code calling the replacement start
\* function, which recorded the configuration it was called with
ShimStarted(w) == given[w] \in Configs

\* C10: every process start calls the vendor start exactly once; the
\* replacement start forwards a configuration without a handler as given,
\* and otherwise forwards it with only the handler replaced, by a callable
\* that pre-processes the job and then calls the handler the configuration
\* came with.
C10_StartShim ==
    \A w \in Workers :
        /\ pc[w] \in {"boot", "off"} => started[w] = << >>
        /\ pc[w] \notin {"boot", "off"} => Len(started[w]) = 1
        /\ (pc[w] \notin {"boot", "off"} /\ ShimStarted(w)) =>
            /\ IF "handler" \notin given[w].keys \/ given[w].handler.kind = "none"
               THEN started[w][1] = given[w]
               ELSE /\ started[w][1].keys = given[w].keys
                    /\ started[w][1].return_aggregate_stream =
                          given[w].return_aggregate_stream
                    /\ started[w][1].handler =
                          [kind |-> "wrapped", fn |-> given[w].handler.fn]
            /\ \A c \in 1..Len(handled[w]) :
                /\ handled[w][c].fn = given[w].handler.fn
                /\ DownloadsKey \notin handled[w][c].input.keys

\* a configuration with a handler was forwarded wrapped, and a job that
\* carried downloads reached the original handler through the wrapper
C10_Witness ==
    \E w \in Workers :
        /\ pc[w] = "done"
        /\ ShimStarted(w)
        /\ started[w][1].handler.kind = "wrapped"
        /\ given[w].handler.kind = "plain"
        /\ DownloadsKey \in job[w].keys
        /\ Len(handled[w]) = 1

(* ---------------------------- C12 -------------------------------------- *)
\* entries of the current list whose filename or url is missing or empty
InvalidPositions(w) ==
    {i \in 1..Len(downloads[w]) : downloads[w][i].filename = "" \/ downloads[w][i].url = ""}

\* C12: an entry whose filename or url is missing or empty is skipped: no
\* network request and no file-system operation is made for it, the cache is
\* not consulted for it, no exception is raised at it, it is recorded as
\* skipped exactly once, and every entry before the current one has been
\* dealt with, in list order.
C12_InvalidEntrySkipped ==
    \A w \in Workers :
        InJob(w) =>
            /\ \A i \in InvalidPositions(w) :
                /\ \A k \in Positions(w) :
                      trace[w][k].i = i => trace[w][k].ev = "skipped"
                /\ CountEvent(w, "skipped", i) = (IF i < idx[w] THEN 1 ELSE 0)
                /\ pc[w] \in {"urlopen", "open", "copy", "rename", "except", "remove",
                              "raised"} => idx[w] # i
            /\ \A i \in 1..Len(downloads[w]) :
                i < idx[w] =>
                    \/ HasEvent(w, "skipped", i)
                    \/ HasEvent(w, "cached", i)
                    \/ HasEvent(w, "rename", i)
            /\ \A k, l \in ListPositions(w) : k < l => trace[w][k].i <= trace[w][l].i

\* an invalid entry was skipped and the valid entry after it was downloaded
C12_Witness ==
    \E w \in Workers :
        /\ Len(downloads[w]) = 2
        /\ 1 \in InvalidPositions(w)
        /\ HasEvent(w, "skipped", 1)
        /\ HasEvent(w, "rename", 2)
        /\ pc[w] = "done"

(* ---------------------------- C13 -------------------------------------- *)
\* C13: cache-entry lifecycle. Once a file exists under the final name
\* <loras>/<f> no step removes it or changes the bytes read under that name;
\* a final name comes into existence only by the rename of a worker that is
\* ending a download of f, and the file it brings holds the complete asset.
C13_CacheEntryLifecycle ==
    [][\A f \in Filenames :
          /\ dest[f] # 0 =>
                /\ dest'[f] # 0
                /\ data'[dest'[f]] = data[dest[f]]
          /\ (dest[f] = 0 /\ dest'[f] # 0) =>
                /\ \E w \in Workers :
                      /\ pc[w] = "rename"
                      /\ Entry(w).filename = f
                      /\ idx'[w] = idx[w] + 1
                /\ data'[dest'[f]] = Body(GoodUrl)]_vars

(* ---------------------------- C17 -------------------------------------- *)
\* the failures of a worker's own transfer and own file operations
OwnFailures == {"URLError", "OSError", "IncompleteRead"}

\* C17: interference freedom. A worker whose download_character_loras is in
\* its except clause or has raised got there by a failure of its own network
\* transfer or own file operation, never because a peer's open, rename or
\* cleanup took the shared temporary file away.
C17_InterferenceFreedom ==
    \A w \in Workers :
        /\ pc[w] \in {"except", "remove"} => cause[w] \in OwnFailures
        /\ (pc[w] = "raised" /\ cause[w] # "") => cause[w] \in OwnFailures

(* ---------------------------- C16 -------------------------------------- *)
\* the cache shapes the endpoint supports
SupportedShape(c) == c.isdict \/ c.has_cache \/ c.has_clear

\* C16: after a request that answered 200 {"status": "ok"}, a cache of a
\* supported shape (plain dict, object with .cache, object with .clear) is
\* empty; a clear call that raises is answered with 500 and an error body,
\* and every request is answered with 200 or 500.
C16_RefreshEndpoint ==
    response # NoResponse =>
        /\ response \in {OkResponse, ErrorResponse}
        /\ (response = OkResponse /\ cache.present /\ SupportedShape(cache)) =>
                cache.items = {}
        /\ (cache.present /\ ~cache.isdict /\ cache.raises) => response = ErrorResponse
        /\ response = ErrorResponse => (cache.present /\ cache.raises)

\* a request found listings cached in an object with a .cache mapping and
\* answered 200
C16_Witness ==
    /\ response = OkResponse
    /\ cache.present /\ ~cache.isdict /\ cache.has_cache
    /\ found # {}

\* a clear call raised and the request was answered with 500
C16_WitnessError ==
    /\ response = ErrorResponse
    /\ cache.raises
    /\ found # {}

(* ---------------------------- C11 -------------------------------------- *)
\* the statements of /handler.py executed so far that are the vendor's
VendorExecuted ==
    {k \in 1..interp.ip : files.handler[k] \in VendorStatements}

\* C11: in the generated /handler.py the entrypoint is replaced before any
\* vendor statement executes: once a vendor statement has run the attribute
\* runpod.serverless.start is the patched function and the patch has kept
\* the vendor's function as its delegate, a name the vendor code imports is
\* bound to the patched function, and every vendor call of the entrypoint
\* reached the patched function.
C11_PatchInstalledFirst ==
    /\ VendorExecuted # {} =>
          /\ interp.start_attr = "patched"
          /\ interp.original_start = "vendor"
          /\ interp.start_name \in {"unbound", "patched"}
    /\ \A k \in 1..Len(interp.reached) : interp.reached[k] = "patched"

\* the vendor code called the entrypoint both by attribute and by imported name
C11_Witness ==
    /\ Len(interp.reached) >= 1
    /\ interp.start_name = "patched"
    /\ interp.ip = Len(files.handler)
    /\ \E k \in VendorExecuted : files.handler[k] = "runpod.serverless.start(config)"

(* ---------------------------- C14 -------------------------------------- *)
\* the CivitAI step was skipped: no key, and no request was made
CivSkipped == ~civ.key /\ civ.requests = 0 /\ \A n \in LoraNames : civ.disk[n] = NoFile
\* every CivitAI download ran to its end and its file is on disk whole
CivAllDownloaded ==
    /\ civ.requests = Len(Loras)
    /\ civ.done = LoraNames
    /\ \A n \in LoraNames : Whole(civ.disk[n])

\* C14: a build-time script exits with 0 exactly when every download
\* succeeded or, for the script with an optional key, when the key is absent,
\* in which case it makes no request; it exits with a non-zero code when a
\* download failed.
C14_BuildExitCodes ==
    /\ civ.pc = "exited" =>
          /\ civ.exit = 0 <=> (CivSkipped \/ CivAllDownloaded)
          /\ ~civ.key => CivSkipped
          /\ (civ.requests > 0 /\ civ.done # LoraNames) => civ.exit # 0
          /\ (\E n \in LoraNames : civ.requests > 0 /\ ~Whole(civ.disk[n])) => civ.exit # 0
    /\ ins.pc = "exited" =>
          /\ ins.exit = 0 => (ins.requests = 1 /\ ins.installed)
          /\ ~ins.installed => ins.exit # 0
    /\ civ.pc # "exited" => civ.exit = -1
    /\ ins.pc # "exited" => ins.exit = -1

(* ---------------------------- C15 -------------------------------------- *)
\* C15: when a build-time script has failed, no partly written file is left
\* under an asset's name, and an interrupted download makes the script fail.
C15_BuildFailureLeavesNoPartialFile ==
    /\ civ.pc = "exited" =>
          /\ (\E n \in LoraNames : Partial(civ.disk[n])) => civ.exit # 0
          /\ civ.exit # 0 => \A n \in LoraNames : ~Partial(civ.disk[n])
    /\ ins.pc = "exited" =>
          /\ Partial(ins.zip) => ins.exit # 0
          /\ ins.exit # 0 => ~Partial(ins.zip)

(* ---------------------------- C18 -------------------------------------- *)
\* C18: on the same job, in the same directory and with the same behaviour
\* of network and endpoint, the code of PATCH_CODE and handler_wrapper.py
\* perform the same operations in the same order, leave the same files, pass
\* the same input to the original handler and raise the same error.
C18_SameBehaviour ==
    outcome.ran =>
        /\ outcome.patch.ops = outcome.wrapper.ops
        /\ outcome.patch.dest = outcome.wrapper.dest
        /\ outcome.patch.tmp = outcome.wrapper.tmp
        /\ outcome.patch.passed = outcome.wrapper.passed
        /\ outcome.patch.err = outcome.wrapper.err

\* a run that downloaded one file, failed on the next after a partial write,
\* removed the partial file and raised
C18_Witness ==
    /\ outcome.ran
    /\ outcome.wrapper.err.type = "RuntimeError"
    /\ \E k \in 1..Len(outcome.wrapper.ops) : outcome.wrapper.ops[k].op = "remove"
    /\ \E k \in 1..Len(outcome.wrapper.ops) : outcome.wrapper.ops[k].op = "rename"
    /\ \E f \in Filenames : Whole(outcome.wrapper.dest[f]) /\ f \notin trial.env.cached

\* a run that downloaded, refreshed and called the original handler
C18_WitnessDelegated ==
    /\ outcome.ran
    /\ Len(outcome.patch.passed) = 1
    /\ \E k \in 1..Len(outcome.patch.ops) : outcome.patch.ops[k].op = "post"
    /\ \E k \in 1..Len(outcome.patch.ops) : outcome.patch.ops[k].op = "rename"

====
